---- MODULE Spec2Model ----
(***************************************************************************)
(* Model of python_version.py: half_life_mean_reversion and                *)
(* calculate_cointegration.                                                *)
(*                                                                         *)
(* Numbers.  A float is modelled as an exact extended rational             *)
(* [n |-> numerator, d |-> denominator]: d > 0 is a finite value in lowest  *)
(* terms, n = 0, d = 0 is nan (the value of 0.0/0.0) and n = +-1, d = 0 is  *)
(* +-inf.                                                                  *)
(* Rounding of IEEE doubles is not modelled.                               *)
(* np.log(2) is irrational: a half-life is carried as its rational         *)
(* coefficient c, meaning c * ln(2).                                       *)
(*                                                                         *)
(* Libraries.  linregress is scipy.stats.linregress; coint and sm are the  *)
(* names statsmodels.tsa.stattools.coint and statsmodels.api, which the    *)
(* file uses without importing: they are modelled as bound to those, and   *)
(* np.float as the alias of float that NumPy had until 1.24.               *)
(* OLS, add_constant and linregress are modelled by what they compute;     *)
(* the cointegration test is a deterministic routine whose answer on a     *)
(* given pair of series is unknown: it is chosen when first asked for and  *)
(* kept (coint_memo) while the same inputs are passed again.  So is what   *)
(* linregress does with identical x values (scipy_raises): older builds    *)
(* divide 0.0 by 0.0, newer ones raise ValueError.                         *)
(***************************************************************************)
EXTENDS Integers, Sequences, FiniteSets, TLC

\* ------------------------------------------------------------- bounds
\* longest input series
MaxLen == 3
\* the two series of calculate_cointegration hold integers 0..MaxVal
MaxVal == 1
\* the series of a direct half_life_mean_reversion call holds 0..HLMaxVal
HLMaxVal == 3

\* ---------------------------------------------------- program constants
\* np.finfo(float).eps = 2^-EpsExp
EpsExp == 52
\* 0.05 in hundredths: p-values are carried in hundredths
PThreshold == 5
\* python index of the 5% critical value in the table {1%, 5%, 10%}
CritIndex == 1
\* python index of the coefficient on series_2 in model.params
HedgeIndex == 1
\* python index of the coefficient on the constant column in model.params
InterceptIndex == 0

VARIABLES
  scipy_raises,  \* whether linregress raises on identical x values, once seen
  globals,       \* names bound at module level
  pc,            \* position of the running call
  fn,            \* the function the caller invoked
  arg1, arg2,    \* the caller's input objects
  cf,            \* frame (locals) of calculate_cointegration
  hf,            \* frame (locals) of half_life_mean_reversion
  hl_result,     \* how the running half_life_mean_reversion call ended
  result,        \* how the caller's call ended
  prev,          \* outcome of the previous call when the caller repeats it
  coint_memo     \* the cointegration routine's answer on the current inputs

vars == <<scipy_raises, globals, pc, fn, arg1, arg2, cf, hf, hl_result,
          result, prev, coint_memo>>

\* ------------------------------------------------------- float arithmetic
Abs(i) == IF i < 0 THEN -i ELSE i

Sign(i) == IF i < 0 THEN -1 ELSE IF i > 0 THEN 1 ELSE 0

RECURSIVE GCD(_, _)
GCD(a, b) == IF b = 0 THEN a ELSE GCD(b, a % b)

Norm(n, d) ==
  IF d = 0 THEN [n |-> Sign(n), d |-> 0]
  ELSE LET g == GCD(Abs(n), Abs(d))
       IN  [n |-> (Sign(d) * n) \div g, d |-> Abs(d) \div g]

R(i) == [n |-> i, d |-> 1]

NaN == [n |-> 0, d |-> 0]

IsNaN(a) == a.d = 0 /\ a.n = 0

RNeg(a) == [n |-> -a.n, d |-> a.d]

RAdd(a, b) ==
  IF IsNaN(a) \/ IsNaN(b) THEN NaN
  ELSE IF a.d = 0 \/ b.d = 0
    THEN Norm((IF a.d = 0 THEN a.n ELSE 0) + (IF b.d = 0 THEN b.n ELSE 0), 0)
  ELSE LET g == GCD(a.d, b.d)
           l == (a.d \div g) * b.d
       IN  Norm(a.n * (l \div a.d) + b.n * (l \div b.d), l)

RSub(a, b) == RAdd(a, RNeg(b))

RMul(a, b) ==
  IF a.d = 0 \/ b.d = 0 THEN Norm(a.n * b.n, 0)
  ELSE LET g1 == GCD(Abs(a.n), b.d)
           g2 == GCD(Abs(b.n), a.d)
       IN  Norm((a.n \div g1) * (b.n \div g2), (a.d \div g2) * (b.d \div g1))

\* 1/a as numpy float64 divides: 1/0 = inf, 1/inf = 0, 1/nan = nan
RInv(a) ==
  IF a.n = 0 THEN (IF a.d = 0 THEN NaN ELSE [n |-> 1, d |-> 0])
  ELSE Norm(Sign(a.n) * a.d, Abs(a.n))

RDiv(a, b) == RMul(a, RInv(b))

\* n * 2^k < d, for naturals n, d, without forming 2^k
RECURSIVE LtPow2(_, _, _)
LtPow2(n, d, k) == IF k = 0 THEN n < d ELSE LtPow2(n, (d + 1) \div 2, k - 1)

\* np.abs(a) < np.finfo(float).eps; every comparison with NaN is False
AbsLtEps(a) ==
  IF a.d = 0 THEN FALSE ELSE LtPow2(Abs(a.n), a.d, EpsExp)

\* ------------------------------------------------------------ array ops
RECURSIVE SumTo(_, _)
SumTo(s, k) == IF k = 0 THEN R(0) ELSE RAdd(SumTo(s, k - 1), s[k])

Sum(s) == SumTo(s, Len(s))

\* np.mean: the mean of an empty array is NaN
Mean(s) == RDiv(Sum(s), R(Len(s)))

\* np.array(x).astype(np.float): a new array, each integer as a float
AsFloat(s) == [i \in 1..Len(s) |-> R(s[i])]

\* np.diff(series)
Diff(s) == [i \in 1..(Len(s) - 1) |-> RSub(s[i + 1], s[i])]

\* series[:-1]
Lagged(s) == [i \in 1..(Len(s) - 1) |-> s[i]]

\* np.cov(x, y, bias=1)[0][1]: the mean of the products of the deviations
Cov(x, y) ==
  LET xm == Mean(x)
      ym == Mean(y)
  IN  Mean([i \in 1..Len(x) |-> RMul(RSub(x[i], xm), RSub(y[i], ym))])

AllSame(x) == \A i, j \in 1..Len(x) : x[i] = x[j]

\* scipy.stats.linregress(x, y): the slope, or the ValueError it raises.
\* raises: this build's linregress rejects identical x values (len(x) > 1).
Linregress(x, y, raises) ==
  IF Len(x) = 0 \/ Len(y) = 0
    THEN [exc |-> "ValueError", msg |-> "Inputs must not be empty."]
  ELSE IF raises /\ AllSame(x) /\ Len(x) > 1
    THEN [exc |-> "ValueError",
          msg |-> "Cannot calculate a linear regression if all x values are identical"]
  ELSE [exc |-> "", slope |-> RDiv(Cov(x, y), Cov(x, x))]

\* sm.add_constant(x): the columns of the design; has_constant='skip'
\* returns x alone when x is already a non-zero constant column
AddConstant(x) ==
  IF Len(x) > 0 /\ AllSame(x) /\ x[1].n # 0
    THEN <<x>>
    ELSE <<[i \in 1..Len(x) |-> R(1)], x>>

\* sm.OLS(y, X).fit().params: the least-squares coefficients, of least norm
\* when the design is singular (the fit is by pseudo-inverse)
OLSParams(y, X) ==
  IF Len(X) = 1
    THEN <<RDiv(Sum([i \in 1..Len(y) |-> RMul(X[1][i], y[i])]),
                Sum([i \in 1..Len(y) |-> RMul(X[1][i], X[1][i])]))>>
  ELSE LET x == X[2]
           sxx == Cov(x, x)
       IN  IF sxx.n # 0
             THEN LET b == RDiv(Cov(x, y), sxx)
                  IN  <<RSub(Mean(y), RMul(b, Mean(x))), b>>
             ELSE LET c == x[1]
                      k == RDiv(Mean(y), RAdd(R(1), RMul(c, c)))
                  IN  <<k, RMul(k, c)>>

\* ------------------------------------------------------------- outcomes
HL == "half_life_mean_reversion"

CC == "calculate_cointegration"

NoResult == [kind |-> "none"]

Return(v) == [kind |-> "return", value |-> v]

Raise(e, m) == [kind |-> "raise", exc |-> e, msg |-> m]

\* SmartError("Series length must be greater than 1."): the spec's InvalidInput
InvalidInput == Raise("SmartError", "Series length must be greater than 1.")

\* SmartError("Cannot calculate half life. ..."): the spec's DegenerateFit
DegenerateFit ==
  Raise("SmartError", "Cannot calculate half life. Slope value is too close to zero.")

\* ---------------------------------------------------------------- frames
\* A frame maps the local names bound so far to their values.
EmptyFrame == << >>

Bind(f, name, v) ==
  [x \in (DOMAIN f) \cup {name} |-> IF x = name THEN v ELSE f[x]]

Bound(f, name) == name \in DOMAIN f

\* the module's namespace once the file is imported
ModuleNames ==
  {"np", "linregress", "SmartError", "half_life_mean_reversion",
   "calculate_cointegration"}

\* ---------------------------------------------------------------- inputs
SeqsUpTo(S, n) == UNION {[1..k -> S] : k \in 0..n}

PairInputs == SeqsUpTo(0..MaxVal, MaxLen)

HLInputs == {AsFloat(s) : s \in SeqsUpTo(0..HLMaxVal, MaxLen)}

\* what the cointegration test can answer: (coint_t, p_value, critical values
\* at 1%, 5%, 10%), the statistic and the critical values in integer units, the
\* p-value in hundredths; or an error of the routine
CointAnswers ==
  {[exc |-> "ValueError", res |-> << >>]} \cup
  {[exc |-> "", res |-> <<t, p, <<-5, -3, -1>>>>] : t \in -4..-3, p \in 4..5}

NoMemo == [known |-> FALSE]

\* ------------------------------------------------------------------ Init
Init ==
  /\ scipy_raises = "unknown"
  /\ globals = ModuleNames
  /\ pc = "idle"
  /\ fn = "none"
  /\ arg1 = << >>
  /\ arg2 = << >>
  /\ cf = EmptyFrame
  /\ hf = EmptyFrame
  /\ hl_result = NoResult
  /\ result = NoResult
  /\ prev = NoResult
  /\ coint_memo = NoMemo

\* --------------------------------------------------------------- callers
\* the caller invokes half_life_mean_reversion(s), s one of its series
CallHalfLife ==
  /\ pc = "idle"
  /\ \E s \in HLInputs :
       /\ arg1' = s
       /\ hf' = Bind(EmptyFrame, "series", s)
  /\ fn' = HL
  /\ arg2' = << >>
  /\ cf' = EmptyFrame
  /\ pc' = "hl8"
  /\ UNCHANGED <<scipy_raises, globals, hl_result, result, prev, coint_memo>>

\* the caller invokes calculate_cointegration(a, b), a and b two of its series
CallCointegration ==
  /\ pc = "idle"
  /\ \E a, b \in PairInputs :
       /\ arg1' = a
       /\ arg2' = b
       /\ cf' = Bind(Bind(EmptyFrame, "series_1", a), "series_2", b)
  /\ fn' = CC
  /\ hf' = EmptyFrame
  /\ pc' = "L19"
  /\ UNCHANGED <<scipy_raises, globals, hl_result, result, prev, coint_memo>>

\* the caller repeats the call it just made, on the same input objects; the
\* frames of the finished call are gone, its outcome is kept for comparison
CallAgain ==
  /\ pc = "done"
  /\ prev' = result
  /\ cf' = IF fn = CC
             THEN Bind(Bind(EmptyFrame, "series_1", arg1), "series_2", arg2)
             ELSE EmptyFrame
  /\ hf' = IF fn = HL THEN Bind(EmptyFrame, "series", arg1) ELSE EmptyFrame
  /\ pc' = IF fn = CC THEN "L19" ELSE "hl8"
  /\ hl_result' = NoResult
  /\ result' = NoResult
  /\ UNCHANGED <<scipy_raises, globals, fn, arg1, arg2, coint_memo>>

\* the caller drops the outcome and its series: what is left is the module
CallerMovesOn ==
  /\ pc = "done"
  /\ pc' = "idle"
  /\ fn' = "none"
  /\ arg1' = << >>
  /\ arg2' = << >>
  /\ cf' = EmptyFrame
  /\ hf' = EmptyFrame
  /\ hl_result' = NoResult
  /\ result' = NoResult
  /\ prev' = NoResult
  /\ coint_memo' = NoMemo
  /\ scipy_raises' = "unknown"
  /\ UNCHANGED globals

\* ---------------------------------------------- half_life_mean_reversion
\* the function ends with `out`: to the caller, or back to line 34
HLExit(out) ==
  /\ hl_result' = out
  /\ IF fn = HL
       THEN result' = out /\ pc' = "done"
       ELSE result' = result /\ pc' = "L34ret"

HLFrame == <<globals, fn, arg1, arg2, cf, prev, coint_memo>>

\* the guard of line 8 written `< 1`: a series of one element passes
TooShortStrict(series) == Len(series) < 1

\* lines 8-9: the length guard
TooShort(series) == Len(series) <= 1

HL8 ==
  /\ pc = "hl8"
  /\ IF TooShort(hf.series)
       THEN HLExit(InvalidInput) /\ hf' = hf
       ELSE pc' = "hl10" /\ UNCHANGED <<hf, hl_result, result>>
  /\ UNCHANGED <<HLFrame, scipy_raises>>

\* line 10
HL10 ==
  /\ pc = "hl10"
  /\ hf' = Bind(hf, "difference", Diff(hf.series))
  /\ pc' = "hl11"
  /\ UNCHANGED <<hl_result, result>>
  /\ UNCHANGED <<HLFrame, scipy_raises>>

\* line 11 taking the lag in place (`series.pop()`): the last element is
\* removed from the object the caller passed
HL11Pop ==
  /\ pc = "hl11"
  /\ hf' = Bind(Bind(hf, "lagged_series", Lagged(hf.series)), "series", Lagged(hf.series))
  /\ IF fn = HL
       THEN arg1' = Lagged(arg1) /\ cf' = cf
       ELSE arg1' = arg1 /\ cf' = Bind(cf, "spread", Lagged(cf.spread))
  /\ pc' = "hl12"
  /\ UNCHANGED <<scipy_raises, globals, fn, arg2, hl_result, result, prev, coint_memo>>

\* line 11
HL11 ==
  /\ pc = "hl11"
  /\ hf' = Bind(hf, "lagged_series", Lagged(hf.series))
  /\ pc' = "hl12"
  /\ UNCHANGED <<hl_result, result>>
  /\ UNCHANGED <<HLFrame, scipy_raises>>

\* line 12: an error of linregress leaves the function unhandled; on
\* identical x values linregress does what it did before, or is seen now
HL12 ==
  /\ pc = "hl12"
  /\ \E raises \in BOOLEAN :
       /\ IF AllSame(hf.lagged_series) /\ Len(hf.lagged_series) > 1
            THEN /\ scipy_raises \in {"unknown", IF raises THEN "yes" ELSE "no"}
                 /\ scipy_raises' = IF raises THEN "yes" ELSE "no"
            ELSE /\ ~raises
                 /\ scipy_raises' = scipy_raises
       /\ LET r == Linregress(hf.lagged_series, hf.difference, raises)
          IN  IF r.exc # ""
                THEN HLExit(Raise(r.exc, r.msg)) /\ hf' = hf
                ELSE /\ hf' = Bind(hf, "slope", r.slope)
                     /\ pc' = "hl13"
                     /\ UNCHANGED <<hl_result, result>>
  /\ UNCHANGED HLFrame

\* lines 13-14: the slope guard
HL13 ==
  /\ pc = "hl13"
  /\ IF AbsLtEps(hf.slope)
       THEN HLExit(DegenerateFit) /\ hf' = hf
       ELSE pc' = "hl15" /\ UNCHANGED <<hf, hl_result, result>>
  /\ UNCHANGED <<HLFrame, scipy_raises>>

\* line 15 without its minus sign: np.log(2) / slope
HalfLifeUnsigned(slope) == RDiv(R(1), slope)

\* line 15: -np.log(2) / slope, as the coefficient of ln(2)
HalfLife(slope) == RDiv(RNeg(R(1)), slope)

HL15 ==
  /\ pc = "hl15"
  /\ hf' = Bind(hf, "half_life", HalfLife(hf.slope))
  /\ pc' = "hl16"
  /\ UNCHANGED <<hl_result, result>>
  /\ UNCHANGED <<HLFrame, scipy_raises>>

\* line 16
HL16 ==
  /\ pc = "hl16"
  /\ HLExit(Return(hf.half_life))
  /\ hf' = hf
  /\ UNCHANGED <<HLFrame, scipy_raises>>

\* ----------------------------------------------- calculate_cointegration
CCFrame == <<scipy_raises, globals, fn, arg1, arg2, hf, hl_result, prev>>

\* an exception leaves calculate_cointegration: nothing in it handles one
CCRaise(out) == result' = out /\ pc' = "done" /\ cf' = cf

\* a line binds a local and goes on
CCStep(name, v, next) == cf' = Bind(cf, name, v) /\ pc' = next /\ result' = result

\* line 19
L19 ==
  /\ pc = "L19"
  /\ CCStep("series_1", AsFloat(cf.series_1), "L20")
  /\ UNCHANGED <<CCFrame, coint_memo>>

\* line 20
L20 ==
  /\ pc = "L20"
  /\ CCStep("series_2", AsFloat(cf.series_2), "L21")
  /\ UNCHANGED <<CCFrame, coint_memo>>

\* line 21 binding the flag at module level (`global coint_flag`)
L21Global ==
  /\ pc = "L21"
  /\ CCStep("coint_flag", 0, "L22")
  /\ globals' = globals \cup {"coint_flag"}
  /\ UNCHANGED <<scipy_raises, fn, arg1, arg2, hf, hl_result, prev, coint_memo>>

\* line 21
L21 ==
  /\ pc = "L21"
  /\ CCStep("coint_flag", 0, "L22")
  /\ UNCHANGED <<CCFrame, coint_memo>>

\* line 22: the test rejects empty series and series of different lengths;
\* on other inputs its answer is the one it gave before, or chosen now
L22 ==
  /\ pc = "L22"
  /\ \E ans \in CointAnswers :
       /\ IF Len(cf.series_1) # Len(cf.series_2) \/ Len(cf.series_1) = 0
            THEN ans.exc # ""
            ELSE TRUE
       /\ IF coint_memo.known THEN ans = coint_memo.ans ELSE TRUE
       /\ coint_memo' = [known |-> TRUE, ans |-> ans]
       /\ IF ans.exc # ""
            THEN CCRaise(Raise(ans.exc, "coint"))
            ELSE CCStep("coint_res", ans.res, "L23")
  /\ UNCHANGED CCFrame

\* line 23: coint_res[0]
L23 ==
  /\ pc = "L23"
  /\ CCStep("coint_t", cf.coint_res[1], "L24")
  /\ UNCHANGED <<CCFrame, coint_memo>>

\* line 24: coint_res[1]
L24 ==
  /\ pc = "L24"
  /\ CCStep("p_value", cf.coint_res[2], "L25")
  /\ UNCHANGED <<CCFrame, coint_memo>>

\* line 25: coint_res[2][1]
CriticalValue(res) == res[3][CritIndex + 1]

L25 ==
  /\ pc = "L25"
  /\ CCStep("critical_value", CriticalValue(cf.coint_res), "L28")
  /\ UNCHANGED <<CCFrame, coint_memo>>

\* line 28
L28 ==
  /\ pc = "L28"
  /\ CCStep("series_2_with_constant", AddConstant(cf.series_2), "L29")
  /\ UNCHANGED <<CCFrame, coint_memo>>

\* line 29: model.params
L29 ==
  /\ pc = "L29"
  /\ CCStep("params", OLSParams(cf.series_1, cf.series_2_with_constant), "L30")
  /\ UNCHANGED <<CCFrame, coint_memo>>

\* line 30 reading params[0], as before the constant column was added
HedgeRatioFirst(params) == params[1]

\* line 30: model.params[1]; IndexError when the fit has one coefficient
HedgeRatio(params) == params[HedgeIndex + 1]

L30 ==
  /\ pc = "L30"
  /\ IF Len(cf.params) < HedgeIndex + 1
       THEN CCRaise(Raise("IndexError", "index 1 is out of bounds"))
       ELSE CCStep("hedge_ratio", HedgeRatio(cf.params), "L31")
  /\ UNCHANGED <<CCFrame, coint_memo>>

\* line 31: model.params[0]
Intercept(params) == params[InterceptIndex + 1]

L31 ==
  /\ pc = "L31"
  /\ CCStep("intercept", Intercept(cf.params), "L33")
  /\ UNCHANGED <<CCFrame, coint_memo>>

\* line 33: series_1 - (series_2 * hedge_ratio) - intercept, elementwise
Spread(s1, s2, h, c) ==
  [i \in 1..Len(s1) |-> RSub(RSub(s1[i], RMul(s2[i], h)), c)]

L33 ==
  /\ pc = "L33"
  /\ CCStep("spread", Spread(cf.series_1, cf.series_2, cf.hedge_ratio, cf.intercept),
            "L34")
  /\ UNCHANGED <<CCFrame, coint_memo>>

\* line 34, the call: half_life_mean_reversion(spread)
L34Call ==
  /\ pc = "L34"
  /\ hf' = Bind(EmptyFrame, "series", cf.spread)
  /\ hl_result' = NoResult
  /\ pc' = "hl8"
  /\ UNCHANGED <<scipy_raises, globals, fn, arg1, arg2, cf, result, prev, coint_memo>>

\* line 34, the call returned: half_life = its value
L34Return ==
  /\ pc = "L34ret"
  /\ hl_result.kind = "return"
  /\ CCStep("half_life", hl_result.value, "L35")
  /\ UNCHANGED <<CCFrame, coint_memo>>

\* line 34 inside a try/except that goes on with half_life = nan
L34Swallow ==
  /\ pc = "L34ret"
  /\ hl_result.kind = "raise"
  /\ CCStep("half_life", NaN, "L35")
  /\ UNCHANGED <<CCFrame, coint_memo>>

\* line 34, the call raised: no handler, the exception leaves the function
L34Propagate ==
  /\ pc = "L34ret"
  /\ hl_result.kind = "raise"
  /\ CCRaise(hl_result)
  /\ UNCHANGED <<CCFrame, coint_memo>>

\* line 35
L35 ==
  /\ pc = "L35"
  /\ CCStep("t_check", cf.coint_t < cf.critical_value, "L36")
  /\ UNCHANGED <<CCFrame, coint_memo>>

\* line 36 with `<=` for the p-value
FlagInclusive(p_value, t_check) == IF p_value <= PThreshold /\ t_check THEN 1 ELSE 0

\* line 36: 1 if p_value < 0.05 and t_check else 0
Flag(p_value, t_check) == IF p_value < PThreshold /\ t_check THEN 1 ELSE 0

L36 ==
  /\ pc = "L36"
  /\ CCStep("coint_flag", Flag(cf.p_value, cf.t_check), "L37")
  /\ UNCHANGED <<CCFrame, coint_memo>>

\* line 37
L37 ==
  /\ pc = "L37"
  /\ result' = Return(<<cf.coint_flag, cf.hedge_ratio, cf.half_life>>)
  /\ pc' = "done"
  /\ cf' = cf
  /\ UNCHANGED <<CCFrame, coint_memo>>

\* ------------------------------------------------------------------ Next
Next ==
  \/ CallHalfLife
  \/ CallCointegration
  \/ CallerMovesOn
  \/ HL8 \/ HL10 \/ HL11 \/ HL12 \/ HL13 \/ HL15 \/ HL16
  \/ L19 \/ L20 \/ L21 \/ L22 \/ L23 \/ L24 \/ L25
  \/ L28 \/ L29 \/ L30 \/ L31 \/ L33
  \/ L34Call \/ L34Return \/ L34Propagate
  \/ L35 \/ L36 \/ L37

Spec == Init /\ [][Next]_vars

\* the same program under a caller that may also repeat a call
NextAgain == Next \/ CallAgain

SpecAgain == Init /\ [][NextAgain]_vars

\* ================================================================ claims

\* C1: for every series of length 0 or 1, half_life_mean_reversion fails with
\* the InvalidInput error before any difference, lag or regression is
\* computed, and returns no half-life: once past the guard of line 8 the
\* call has ended with InvalidInput and its frame holds the series alone.
C1_ShortSeriesInvalidInput ==
  (Bound(hf, "series") /\ Len(hf.series) <= 1 /\ pc # "hl8")
    => /\ hl_result = InvalidInput
       /\ DOMAIN hf = {"series"}
       /\ (fn = HL => pc = "done" /\ result = InvalidInput)

C1_Witness ==
  /\ pc = "done"
  /\ fn = HL
  /\ Len(arg1) = 1
  /\ result = InvalidInput

\* C2: whenever calculate_cointegration returns a triple, its flag is 0 or 1,
\* and it is 1 exactly when the test's p-value is below 0.05 (5 hundredths)
\* and its statistic is below the second of the three critical values.
C2_FlagIffBothStrict ==
  (pc = "done" /\ fn = CC /\ result.kind = "return")
    => LET ans == coint_memo.ans.res
       IN  /\ Len(ans[3]) = 3
           /\ result.value[1] \in {0, 1}
           /\ (result.value[1] = 1) <=> (ans[2] < 5 /\ ans[1] < ans[3][2])

C2_Witness ==
  /\ pc = "done"
  /\ fn = CC
  /\ result.kind = "return"
  /\ result.value[1] = 1

\* C3: calculate_cointegration is all-or-nothing and runs its steps in the
\* order test, fit, spread, half-life, flag: a finished call has raised, or
\* has returned the triple of its three bound locals after a half-life call
\* that returned; a failure of half_life_mean_reversion(spread) is the
\* call's own outcome at once (no retry, no flag decided), whatever the
\* test's p-value and statistic are.
C3_AllOrNothing ==
  /\ (pc = "done" /\ fn = CC)
       => \/ result.kind = "raise"
          \/ /\ result.kind = "return"
             /\ hl_result.kind = "return"
             /\ {"coint_flag", "hedge_ratio", "half_life", "t_check"} \subseteq DOMAIN cf
             /\ result.value = <<cf.coint_flag, cf.hedge_ratio, cf.half_life>>
  /\ (fn = CC /\ hl_result.kind = "raise" /\ pc # "L34ret")
       => /\ pc = "done"
          /\ result = hl_result
          /\ ~Bound(cf, "half_life")
          /\ ~Bound(cf, "t_check")
          /\ cf.coint_flag = 0
  /\ (fn = CC /\ Bound(cf, "params")) => Bound(cf, "coint_res")
  /\ (fn = CC /\ Bound(cf, "spread")) => Bound(cf, "params")
  /\ (fn = CC /\ Bound(hf, "series")) => Bound(cf, "spread")
  /\ (fn = CC /\ Bound(cf, "half_life")) => hl_result.kind = "return"
  /\ (fn = CC /\ Bound(cf, "t_check")) => Bound(cf, "half_life")

C3_Witness ==
  /\ pc = "done"
  /\ fn = CC
  /\ hl_result = DegenerateFit
  /\ result = DegenerateFit
  /\ coint_memo.ans.res[2] < 5
  /\ coint_memo.ans.res[1] < coint_memo.ans.res[3][2]

\* the consecutive differences of s are all equal to one constant
ConstantDifferences(s) ==
  \A i, j \in 1..(Len(s) - 1) : RSub(s[i + 1], s[i]) = RSub(s[j + 1], s[j])

\* C4 (as stated): half_life_mean_reversion fails with DegenerateFit whenever
\* the fitted slope is below machine epsilon in absolute value, and in
\* particular for every series of length > 1 whose consecutive differences
\* are all equal to one constant.
C4_ConstantDifferencesDegenerate ==
  /\ (Bound(hf, "slope") /\ AbsLtEps(hf.slope) /\ pc # "hl13")
       => hl_result = DegenerateFit
  /\ (Bound(hf, "series") /\ Len(hf.series) > 1 /\ ConstantDifferences(hf.series)
        /\ hl_result.kind # "none")
       => hl_result = DegenerateFit

\* C5 (as stated, for the series that are not constant and a cointegration
\* test that answers): given two identical series of length > 1,
\* calculate_cointegration obtains hedge_ratio = 1 and intercept = 0, an
\* all-zero spread, and ends with the DegenerateFit error.
C5_IdenticalSeriesDegenerate ==
  (pc = "done" /\ fn = CC /\ arg1 = arg2 /\ Len(arg1) > 1 /\ ~AllSame(arg1)
     /\ Bound(cf, "coint_res"))
    => /\ Bound(cf, "spread")
       /\ cf.hedge_ratio = R(1)
       /\ cf.intercept = R(0)
       /\ \A i \in 1..Len(cf.spread) : cf.spread[i] = R(0)
       /\ result = DegenerateFit

\* C6: hedge_ratio is the coefficient on series_2 (second of two params) and
\* intercept the one on the constant column (first) of the least-squares fit
\* series_1 ~ intercept + hedge_ratio * series_2 (the residuals sum to zero and
\* are orthogonal to series_2); the series handed to
\* half_life_mean_reversion is spread[i] = series_1[i] - hedge_ratio *
\* series_2[i] - intercept for every i, as long as the inputs; the returned
\* hedge_ratio is that coefficient.  (The sums are looked at where the spread
\* has just been computed, where it is handed over, and at the end.)
C6_SpreadFromFit ==
  (fn = CC /\ Bound(cf, "spread"))
    => /\ Len(cf.params) = 2
       /\ cf.hedge_ratio = cf.params[2]
       /\ cf.intercept = cf.params[1]
       /\ Len(cf.spread) = Len(arg1)
       /\ Len(cf.spread) = Len(arg2)
       /\ (Bound(hf, "series") => hf.series = cf.spread)
       /\ (result.kind = "return" => result.value[2] = cf.hedge_ratio)
       /\ pc \in {"L34", "hl8", "done"}
            => /\ \A i \in 1..Len(arg1) :
                    cf.spread[i] =
                      RSub(RSub(R(arg1[i]), RMul(cf.hedge_ratio, R(arg2[i]))),
                           cf.intercept)
               /\ Sum(cf.spread) = R(0)
               /\ Sum([i \in 1..Len(arg2) |-> RMul(cf.spread[i], R(arg2[i]))]) = R(0)

C6_Witness ==
  /\ pc = "done"
  /\ fn = CC
  /\ result.kind = "return"
  /\ cf.hedge_ratio.n # 0
  /\ cf.intercept.n # 0
  /\ cf.hedge_ratio # cf.intercept
  /\ \E i \in 1..Len(cf.spread) : cf.spread[i].n # 0

\* C7: for every series of length > 1 whose fitted slope is a number of
\* absolute value >= machine epsilon, half_life_mean_reversion returns
\* -ln(2)/slope, where slope is the least-squares slope of d[i] = series[i+1]
\* - series[i] on lag[i] = series[i]; the half-life is positive exactly when
\* the slope is negative, and a positive slope gives a negative half-life,
\* not an error.  (The regression sums are looked at where the function has
\* just ended.)
C7_HalfLifeFromSlope ==
  (Bound(hf, "slope") /\ hf.slope.d # 0 /\ ~AbsLtEps(hf.slope)
     /\ pc \notin {"hl13", "hl15", "hl16"})
    => /\ Len(hf.series) > 1
       /\ hl_result.kind = "return"
       /\ hl_result.value.d # 0
       /\ RMul(hl_result.value, hf.slope) = R(-1)
       /\ (hl_result.value.n > 0) <=> (hf.slope.n < 0)
       /\ (hl_result.value.n < 0) <=> (hf.slope.n > 0)
       /\ (pc = "L34ret" \/ (pc = "done" /\ fn = HL))
            => LET n == Len(hf.series) - 1
                   lag == [i \in 1..n |-> hf.series[i]]
                   d == [i \in 1..n |-> RSub(hf.series[i + 1], hf.series[i])]
                   lm == RDiv(Sum(lag), R(n))
                   dm == RDiv(Sum(d), R(n))
                   sxx == Sum([i \in 1..n |-> RMul(RSub(lag[i], lm), RSub(lag[i], lm))])
                   sxy == Sum([i \in 1..n |-> RMul(RSub(lag[i], lm), RSub(d[i], dm))])
               IN  /\ sxx.n # 0
                   /\ RMul(hf.slope, sxx) = sxy

C7_Witness ==
  /\ pc = "done"
  /\ fn = HL
  /\ Bound(hf, "slope")
  /\ hf.slope.d # 0
  /\ hf.slope.n > 0
  /\ result.kind = "return"
  /\ result.value.n < 0

\* C8: a call repeated on the same inputs ends as the first one did (the same
\* triple or half-life, or the same error), and nothing is kept between
\* calls: the module's namespace is what the import left.
C8_RepeatSameOutcome ==
  /\ (pc = "done" /\ prev.kind # "none") => result = prev
  /\ globals = ModuleNames

C8_Witness ==
  /\ pc = "done"
  /\ fn = CC
  /\ prev.kind = "return"
  /\ result.kind = "return"
  /\ result.value[2].n # 0

\* C9: no step of either function changes the caller's input series or the
\* module's namespace, whether the call goes on to return or to raise.
C9_NoSideEffects ==
  [][pc \notin {"idle", "done"}
       => (arg1' = arg1 /\ arg2' = arg2 /\ globals' = globals)]_vars

C9_Witness ==
  /\ pc = "done"
  /\ fn = CC
  /\ result.kind = "return"
  /\ arg1 \in PairInputs
  /\ arg2 \in PairInputs
  /\ \E i \in 1..Len(arg1) : cf.spread[i] # cf.series_1[i]
  /\ globals = ModuleNames

\* C10 (as stated): for every series of length > 1, half_life_mean_reversion
\* ends by raising DegenerateFit or by returning a finite half-life, also
\* when the lagged values are all identical.
C10_DegenerateOrFinite ==
  (Bound(hf, "series") /\ Len(hf.series) > 1 /\ hl_result.kind # "none")
    => \/ hl_result = DegenerateFit
       \/ (hl_result.kind = "return" /\ hl_result.value.d # 0)

====
